---- MODULE Spec2Model ----
(***************************************************************************)
(* Model of lammps_to_molecule_partial (src/LammpsToMoleculePartial.py):   *)
(* extraction of a partial structure around the bonding atoms of a LAMMPS  *)
(* data file, renumbering of the surviving records and assembly of the     *)
(* molecule file.  The helpers imported from LammpsSearchFuncs and         *)
(* LammpsTreatmentFuncs are modelled from their specification.             *)
(***************************************************************************)
EXTENDS Integers, Sequences, FiniteSets, TLC

VARIABLES
    tidiedLines,            \* the cleaned input file, by section
    bondingAtoms,           \* argument: list of seed atom ids
    deleteAtoms,            \* argument: None or Some(list of atom ids)
    extendEdgeAtomsDict,    \* argument: None or Some(dict atom id -> list of atom ids)
    elementsByType,         \* argument: list of element symbols, by atom type
    pc,                     \* position in lammps_to_molecule_partial
    failure,                \* the exception that ended the run, or "none"
    validAtomSet,
    edgeAtomList,
    edgeAtomFingerprintDict,
    renumberedAtomIDDict,
    atoms, bonds, angles, dihedrals, impropers,   \* refined sections
    types, charges, coords,
    header,                 \* the five leading header lines, split
    edgeElementFingerprintList,
    commentString,          \* the comment lines
    savedFile               \* the output file: None, or Some(outputList)

vars == <<tidiedLines, bondingAtoms, deleteAtoms, extendEdgeAtomsDict, elementsByType,
          pc, failure, validAtomSet, edgeAtomList, edgeAtomFingerprintDict,
          renumberedAtomIDDict, atoms, bonds, angles, dihedrals, impropers,
          types, charges, coords, header, edgeElementFingerprintList,
          commentString, savedFile>>

-----------------------------------------------------------------------------
(* Bounds of the model *)

MaxAtoms == 5
MaxSeeds == 1
MaxDelete == 1
MaxExtend == 1

AtomIDs == 1..MaxAtoms

\* Optional values: python None, or a value
None == <<>>
Some(x) == <<x>>
IsNone(o) == o = <<>>
Get(o) == o[1]

-----------------------------------------------------------------------------
(* Generic helpers *)

\* A python list row: 0-based fields
Row(t) == [i \in 0..(Len(t) - 1) |-> t[i + 1]]

RowLen(r) == Cardinality(DOMAIN r)

\* Key of a tuple of atom ids, used to order records in the input file
RECURSIVE TupleKey(_)
TupleKey(t) == IF t = <<>> THEN 0
               ELSE TupleKey(SubSeq(t, 1, Len(t) - 1)) * (MaxAtoms + 1) + t[Len(t)]

RECURSIVE SortTuples(_)
SortTuples(S) ==
    IF S = {} THEN <<>>
    ELSE LET m == CHOOSE x \in S : \A y \in S : TupleKey(x) <= TupleKey(y)
         IN  <<m>> \o SortTuples(S \ {m})

RECURSIVE SortAscending(_)
SortAscending(S) ==
    IF S = {} THEN <<>>
    ELSE LET m == CHOOSE x \in S : \A y \in S : x <= y
         IN  <<m>> \o SortAscending(S \ {m})

SeqRange(s) == {s[i] : i \in 1..Len(s)}

-----------------------------------------------------------------------------
(* The input file.  Atom rows are [id, group, type, charge, x, y, z]; bond,  *)
(* angle, dihedral and improper rows are [id, type, atom-id...].             *)

\* Bond sets of the data files of the model: a chain over the first atom ids, with
\* or without a branch bond that closes a ring and gives atom 3 a third neighbour
BondSets == {{<<a, a + 1>> : a \in 1..k} \cup branch :
                k \in 0..(MaxAtoms - 1), branch \in {{}, {<<1, 3>>}}}

Bonded(E, a, b) == <<a, b>> \in E \/ <<b, a>> \in E

AnglesOf(E) == {<<a, b, c>> \in AtomIDs \X AtomIDs \X AtomIDs :
                    a < c /\ b # a /\ b # c /\ Bonded(E, a, b) /\ Bonded(E, b, c)}

DihedralsOf(E) == {<<a, b, c, d>> \in AtomIDs \X AtomIDs \X AtomIDs \X AtomIDs :
                    /\ a < d /\ Cardinality({a, b, c, d}) = 4
                    /\ Bonded(E, a, b) /\ Bonded(E, b, c) /\ Bonded(E, c, d)}

ImpropersOf(E) == {<<b, a, c, d>> \in AtomIDs \X AtomIDs \X AtomIDs \X AtomIDs :
                    /\ a < c /\ c < d /\ b \notin {a, c, d}
                    /\ Bonded(E, b, a) /\ Bonded(E, b, c) /\ Bonded(E, b, d)}

AtomType(a) == 1 + (a % 2)

\* Atoms are listed in the file in descending id order
AtomRows == [k \in 1..MaxAtoms |->
                LET a == MaxAtoms + 1 - k
                IN  Row(<<a, 1, AtomType(a), 0, a, 0, 0>>)]

RecordRows(S) == LET t == SortTuples(S)
                 IN  [k \in 1..Len(t) |-> Row(<<k, 1>> \o t[k])]

DataFile(E) ==
    [Atoms     |-> AtomRows,
     Bonds     |-> RecordRows(E),
     Angles    |-> RecordRows(AnglesOf(E)),
     Dihedrals |-> RecordRows(DihedralsOf(E)),
     Impropers |-> RecordRows(ImpropersOf(E)),
     Header    |-> <<Row(<<MaxAtoms, "atoms">>),
                     Row(<<Cardinality(E), "bonds">>),
                     Row(<<Cardinality(AnglesOf(E)), "angles">>),
                     Row(<<Cardinality(DihedralsOf(E)), "dihedrals">>),
                     Row(<<Cardinality(ImpropersOf(E)), "impropers">>)>>]

get_data(sectionName, lines) == lines[sectionName]

-----------------------------------------------------------------------------
(* Bond graph and reachability (LammpsSearchFuncs) *)

\* The bond graph: both directions of every bond of the list
BondGraph(bondList) ==
    {<<bondList[i][2], bondList[i][3]>> : i \in 1..Len(bondList)}
    \cup {<<bondList[i][3], bondList[i][2]>> : i \in 1..Len(bondList)}

get_edge_atoms(graph, valid) ==
    SortAscending({a \in valid : \E p \in graph : p[1] = a /\ p[2] \notin valid})

RECURSIVE Reach(_, _, _, _)
Reach(graph, S, excluded, d) ==
    IF d = 0 THEN S
    ELSE Reach(graph,
               S \cup ({p[2] : p \in {q \in graph : q[1] \in S}} \ excluded),
               excluded, d - 1)

find_partial_structure(seedAtoms, originalBondList, delAtoms, bondDistance) ==
    LET graph    == BondGraph(originalBondList)
        excluded == IF IsNone(delAtoms) THEN {} ELSE SeqRange(Get(delAtoms))
        valid    == Reach(graph, SeqRange(seedAtoms) \ excluded, excluded, bondDistance)
    IN  <<valid, get_edge_atoms(graph, valid)>>

extend_edge_atoms(extendDict, originalBondList, valid) ==
    LET added    == UNION {SeqRange(extendDict[k]) : k \in DOMAIN extendDict}
        enlarged == valid \cup added
    IN  <<enlarged, get_edge_atoms(BondGraph(originalBondList), enlarged)>>

\* External neighbours of atom e, in the order the bond list meets them
RECURSIVE ExternalNeighbours(_, _, _)
ExternalNeighbours(bondList, e, valid) ==
    IF bondList = <<>> THEN <<>>
    ELSE LET b    == Head(bondList)
             rest == ExternalNeighbours(Tail(bondList), e, valid)
         IN  IF b[2] = e /\ b[3] \notin valid THEN <<b[3]>> \o rest
             ELSE IF b[3] = e /\ b[2] \notin valid THEN <<b[2]>> \o rest
             ELSE rest

\* A dict is a list of <<key, value>> items in insertion order
edge_atom_fingerprint_ids(edgeAtoms, originalBondList, valid) ==
    [i \in 1..Len(edgeAtoms) |->
        <<edgeAtoms[i], ExternalNeighbours(originalBondList, edgeAtoms[i], valid)>>]

-----------------------------------------------------------------------------
(* Record remapping and formatting (LammpsTreatmentFuncs) *)

\* refine_data without a renumbering dict: the atoms section.  Keeps the rows whose
\* id is valid, numbers them from 1 in file order and records old id -> new id.
refine_data_atoms(data, searchIndex, valid) ==
    LET kept == SelectSeq(data, LAMBDA r : r[searchIndex] \in valid)
        keys == {kept[i][searchIndex] : i \in 1..Len(kept)}
        last(a) == CHOOSE i \in 1..Len(kept) :
                      /\ kept[i][searchIndex] = a
                      /\ \A j \in 1..Len(kept) : kept[j][searchIndex] = a => j <= i
    IN  <<[i \in 1..Len(kept) |-> [kept[i] EXCEPT ![searchIndex] = i]],
          [a \in keys |-> last(a)]>>

\* refine_data with a renumbering dict: bonds, angles, dihedrals, impropers.  Keeps
\* the rows whose every atom id is valid, renumbers the rows from 1 and rewrites the
\* atom ids; an atom id the dict does not hold is an integrity error.
refine_data(data, searchIndex, valid, renumberDict) ==
    LET kept == SelectSeq(data, LAMBDA r : \A c \in searchIndex : r[c] \in valid)
        resolves == \A i \in 1..Len(kept) : \A c \in searchIndex :
                        kept[i][c] \in DOMAIN renumberDict
    IN  IF ~resolves THEN [ok |-> FALSE, rows |-> <<>>]
        ELSE [ok   |-> TRUE,
              rows |-> [i \in 1..Len(kept) |->
                          [f \in DOMAIN kept[i] |->
                              IF f = 0 THEN i
                              ELSE IF f \in searchIndex THEN renumberDict[kept[i][f]]
                              ELSE kept[i][f]]]]

\* Three lines (blank, keyword, blank) go before a section that has rows
add_section_keyword(sectionName, data) ==
    IF Len(data) = 0 THEN data
    ELSE <<Row(<<"\n">>), Row(<<sectionName>>), Row(<<"\n">>)>> \o data

format_comment(list, comment) == [comment |-> comment, values |-> list]

\* atom id -> element symbol, for the atoms whose type elementsByType covers
element_atomID_dict(lines, elements) ==
    LET rows == lines["Atoms"]
        ids  == {rows[i][0] : i \in {j \in 1..Len(rows) : rows[j][2] <= Len(elements)}}
        typeOf(a) == (CHOOSE r \in SeqRange(rows) : r[0] = a)[2]
    IN  [a \in ids |-> elements[typeOf(a)]]

ElementRank(e) == CASE e = "C" -> 1 [] e = "H" -> 2 [] OTHER -> 3

RECURSIVE InsertSymbol(_, _)
InsertSymbol(e, sorted) ==
    IF sorted = <<>> THEN <<e>>
    ELSE IF ElementRank(e) <= ElementRank(Head(sorted)) THEN <<e>> \o sorted
    ELSE <<Head(sorted)>> \o InsertSymbol(e, Tail(sorted))

RECURSIVE SortSymbols(_)
SortSymbols(s) == IF s = <<>> THEN <<>> ELSE InsertSymbol(Head(s), SortSymbols(Tail(s)))

\* The fingerprint string of a list of external neighbours: their sorted elements
FingerprintString(ids, elementDict) ==
    SortSymbols([i \in 1..Len(ids) |-> elementDict[ids[i]]])

edge_atom_fingerprint_strings(fingerprintDict, elementDict) ==
    LET resolves == \A i \in 1..Len(fingerprintDict) :
                        SeqRange(fingerprintDict[i][2]) \subseteq DOMAIN elementDict
    IN  IF ~resolves THEN [ok |-> FALSE, dict |-> <<>>]
        ELSE [ok   |-> TRUE,
              dict |-> [i \in 1..Len(fingerprintDict) |->
                          <<fingerprintDict[i][1],
                            FingerprintString(fingerprintDict[i][2], elementDict)>>]]

DictValues(d) == [i \in 1..Len(d) |-> d[i][2]]

-----------------------------------------------------------------------------
(* lammps_to_molecule_partial: the values it fixes and the calls it makes *)

\* A traversal that goes one bond too far
bondDistanceOneMore == 3 + 1

bondDistance == 3

\* The atoms filtered and keyed on their second field, the molecule-group id
AtomIdColGroup == 0 + 1

AtomIdCol == 0

\* Bonds checked and rewritten on their first atom only
BondColsFirstAtom == {2}

BondCols == {2, 3}

AngleCols == {2, 3, 4}

DihedralCols == {2, 3, 4, 5}

ImproperCols == {2, 3, 4, 5}

\* The assertion written with >= for >
CheckBondingAtomsWeak(seedAtoms) == Len(seedAtoms) >= 0

\* assert len(bondingAtoms) > 0
CheckBondingAtoms(seedAtoms) == Len(seedAtoms) > 0

originalBondList == get_data("Bonds", tidiedLines)

\* The extension's valid set taken, but the edge-atom list left as it was
ExtendStageStaleEdges(extendDict, bondList, valid, edgeAtoms) ==
    IF ~IsNone(extendDict)
    THEN <<extend_edge_atoms(Get(extendDict), bondList, valid)[1], edgeAtoms>>
    ELSE <<valid, edgeAtoms>>

\* if extendEdgeAtomsDict is not None: validAtomSet, edgeAtomList = extend_edge_atoms(...)
ExtendStage(extendDict, bondList, valid, edgeAtoms) ==
    IF ~IsNone(extendDict) THEN extend_edge_atoms(Get(extendDict), bondList, valid)
    ELSE <<valid, edgeAtoms>>

TypesOf(atomRows)   == [i \in 1..Len(atomRows) |-> Row(<<atomRows[i][0], atomRows[i][2]>>)]

ChargesOf(atomRows) == [i \in 1..Len(atomRows) |-> Row(<<atomRows[i][0], atomRows[i][3]>>)]

CoordsOf(atomRows)  == [i \in 1..Len(atomRows) |->
                          Row(<<atomRows[i][0], atomRows[i][4], atomRows[i][5], atomRows[i][6]>>)]

\* The count without the case of a section that has no rows
HeaderCountNoEmptyCase(data) == Len(data) - 3

\* The count of a section's rows, less its three keyword lines
HeaderCount(data) == IF Len(data) > 0 THEN Len(data) - 3 ELSE 0

\* header[index][0] = count, for types, bonds, angles, dihedrals, impropers; then a
\* blank line is put first
UpdateHeader(headerLines, sections) ==
    <<Row(<<"\n">>)>> \o
    [i \in 1..Len(sections) |-> [headerLines[i] EXCEPT ![0] = HeaderCount(sections[i])]]

\* [renumberedAtomIDDict[x] for x in idList] raises KeyError unless every id resolves
Resolves(renumberDict, idList) == SeqRange(idList) \subseteq DOMAIN renumberDict

Renumbered(renumberDict, idList) == [i \in 1..Len(idList) |-> renumberDict[idList[i]]]

CommentLines(renumberDict, seedAtoms, edgeAtoms, fingerprints, delAtoms) ==
    <<format_comment(Renumbered(renumberDict, seedAtoms), "# Bonding_Atoms "),
      format_comment(Renumbered(renumberDict, edgeAtoms), "# Edge_Atoms "),
      format_comment(fingerprints, "# Edge_Atom_Fingerprints ")>>
    \o (IF ~IsNone(delAtoms)
        THEN <<format_comment(Renumbered(renumberDict, Get(delAtoms)), "# Delete_Atoms")>>
        ELSE <<>>)

OutputList == commentString \o header \o types \o charges \o coords
              \o bonds \o angles \o dihedrals \o impropers

-----------------------------------------------------------------------------
(* The arguments and files a run is given *)

SeedChoices == {SortAscending(S) : S \in {T \in SUBSET AtomIDs : Cardinality(T) <= MaxSeeds}}

DeleteChoices ==
    {None} \cup {Some(SortAscending(S)) :
                    S \in {T \in SUBSET AtomIDs : Cardinality(T) <= MaxDelete}}

\* Extension dicts: one atom named, with some of its bonded neighbours
ExtendChoices(E) ==
    {None} \cup
    UNION {{Some([k \in {key} |-> SortAscending(S)]) :
                S \in {T \in SUBSET {a \in AtomIDs : Bonded(E, key, a)} :
                          T # {} /\ Cardinality(T) <= MaxExtend}} :
           key \in AtomIDs}

ElementChoices == {<<"H", "C">>, <<"H">>}

Init ==
    /\ \E E \in BondSets :
          /\ tidiedLines = DataFile(E)
          /\ extendEdgeAtomsDict \in ExtendChoices(E)
    /\ bondingAtoms \in SeedChoices
    /\ deleteAtoms \in DeleteChoices
    /\ elementsByType \in ElementChoices
    /\ pc = "start"
    /\ failure = "none"
    /\ validAtomSet = {}
    /\ edgeAtomList = <<>>
    /\ edgeAtomFingerprintDict = <<>>
    /\ renumberedAtomIDDict = <<>>
    /\ atoms = <<>> /\ bonds = <<>> /\ angles = <<>> /\ dihedrals = <<>> /\ impropers = <<>>
    /\ types = <<>> /\ charges = <<>> /\ coords = <<>>
    /\ header = <<>>
    /\ edgeElementFingerprintList = <<>>
    /\ commentString = <<>>
    /\ savedFile = None

-----------------------------------------------------------------------------
(* The steps of lammps_to_molecule_partial *)

Fail(exception) ==
    /\ pc' = "failed"
    /\ failure' = exception

\* Lines 45-68: the assertion, the file is read, the partial structure is found,
\* the fingerprint ids are captured and the edge atoms are extended
FindPartialStructure ==
    /\ pc = "start"
    /\ IF ~CheckBondingAtoms(bondingAtoms)
       THEN /\ Fail("AssertionError")
            /\ UNCHANGED <<validAtomSet, edgeAtomList, edgeAtomFingerprintDict>>
       ELSE LET found == find_partial_structure(bondingAtoms, originalBondList,
                                                deleteAtoms, bondDistance)
                extended == ExtendStage(extendEdgeAtomsDict, originalBondList,
                                        found[1], found[2])
            IN  /\ edgeAtomFingerprintDict' =
                       edge_atom_fingerprint_ids(found[2], originalBondList, found[1])
                /\ validAtomSet' = extended[1]
                /\ edgeAtomList' = extended[2]
                /\ pc' = "refine"
                /\ UNCHANGED failure
    /\ UNCHANGED <<tidiedLines, bondingAtoms, deleteAtoms, extendEdgeAtomsDict,
                   elementsByType, renumberedAtomIDDict, atoms, bonds, angles,
                   dihedrals, impropers, types, charges, coords, header,
                   edgeElementFingerprintList, commentString, savedFile>>

\* Lines 70-112: the sections are refined and renumbered, and the header is updated
RefineData ==
    /\ pc = "refine"
    /\ LET refinedAtoms == refine_data_atoms(get_data("Atoms", tidiedLines),
                                             AtomIdCol, validAtomSet)
           dict == refinedAtoms[2]
           b == refine_data(originalBondList, BondCols, validAtomSet, dict)
           a == refine_data(get_data("Angles", tidiedLines), AngleCols, validAtomSet, dict)
           d == refine_data(get_data("Dihedrals", tidiedLines), DihedralCols,
                            validAtomSet, dict)
           i == refine_data(get_data("Impropers", tidiedLines), ImproperCols,
                            validAtomSet, dict)
       IN  IF ~(b.ok /\ a.ok /\ d.ok /\ i.ok)
           THEN /\ Fail("IntegrityError")
                /\ UNCHANGED <<renumberedAtomIDDict, atoms, bonds, angles, dihedrals,
                               impropers, types, charges, coords, header>>
           ELSE LET newTypes     == add_section_keyword("Types", TypesOf(refinedAtoms[1]))
                    newBonds     == add_section_keyword("Bonds", b.rows)
                    newAngles    == add_section_keyword("Angles", a.rows)
                    newDihedrals == add_section_keyword("Dihedrals", d.rows)
                    newImpropers == add_section_keyword("Impropers", i.rows)
                IN  /\ atoms' = refinedAtoms[1]
                    /\ renumberedAtomIDDict' = dict
                    /\ bonds' = newBonds
                    /\ angles' = newAngles
                    /\ dihedrals' = newDihedrals
                    /\ impropers' = newImpropers
                    /\ types' = newTypes
                    /\ charges' = add_section_keyword("Charges", ChargesOf(refinedAtoms[1]))
                    /\ coords' = add_section_keyword("Coords", CoordsOf(refinedAtoms[1]))
                    /\ header' = UpdateHeader(tidiedLines["Header"],
                                     <<newTypes, newBonds, newAngles, newDihedrals,
                                       newImpropers>>)
                    /\ pc' = "comments"
                    /\ UNCHANGED failure
    /\ UNCHANGED <<tidiedLines, bondingAtoms, deleteAtoms, extendEdgeAtomsDict,
                   elementsByType, validAtomSet, edgeAtomList, edgeAtomFingerprintDict,
                   edgeElementFingerprintList, commentString, savedFile>>

\* Lines 114-136: the fingerprints are rendered and the comments are built from
\* renumbered ids
FormatComments ==
    /\ pc = "comments"
    /\ LET elementAtomIDDict == element_atomID_dict(tidiedLines, elementsByType)
           rendered == edge_atom_fingerprint_strings(edgeAtomFingerprintDict,
                                                     elementAtomIDDict)
       IN  IF ~rendered.ok
           THEN /\ Fail("LookupError")
                /\ UNCHANGED <<edgeElementFingerprintList, commentString>>
           ELSE IF ~Resolves(renumberedAtomIDDict, bondingAtoms)
           THEN /\ Fail("KeyError bondingAtoms")
                /\ UNCHANGED <<edgeElementFingerprintList, commentString>>
           ELSE IF ~Resolves(renumberedAtomIDDict, edgeAtomList)
           THEN /\ Fail("KeyError edgeAtomList")
                /\ UNCHANGED <<edgeElementFingerprintList, commentString>>
           ELSE IF ~IsNone(deleteAtoms) /\ ~Resolves(renumberedAtomIDDict, Get(deleteAtoms))
           THEN /\ Fail("KeyError deleteAtoms")
                /\ UNCHANGED <<edgeElementFingerprintList, commentString>>
           ELSE /\ edgeElementFingerprintList' = DictValues(rendered.dict)
                /\ commentString' = CommentLines(renumberedAtomIDDict, bondingAtoms,
                                        edgeAtomList, DictValues(rendered.dict),
                                        deleteAtoms)
                /\ pc' = "save"
                /\ UNCHANGED failure
    /\ UNCHANGED <<tidiedLines, bondingAtoms, deleteAtoms, extendEdgeAtomsDict,
                   elementsByType, validAtomSet, edgeAtomList, edgeAtomFingerprintDict,
                   renumberedAtomIDDict, atoms, bonds, angles, dihedrals, impropers,
                   types, charges, coords, header, savedFile>>

\* Lines 138-148: the output list is assembled and handed to save_text_file
SaveFile ==
    /\ pc = "save"
    /\ savedFile' = Some(OutputList)
    /\ pc' = "done"
    /\ UNCHANGED <<tidiedLines, bondingAtoms, deleteAtoms, extendEdgeAtomsDict,
                   elementsByType, failure, validAtomSet, edgeAtomList,
                   edgeAtomFingerprintDict, renumberedAtomIDDict, atoms, bonds, angles,
                   dihedrals, impropers, types, charges, coords, header,
                   edgeElementFingerprintList, commentString>>

Next ==
    \/ FindPartialStructure
    \/ RefineData
    \/ FormatComments
    \/ SaveFile

Spec == Init /\ [][Next]_vars

-----------------------------------------------------------------------------
(* Vocabulary of the properties, stated on the input file and the arguments *)

\* The pairs of atoms that share a bond of the original file, both ways round
OrigBonds ==
    LET rows == tidiedLines["Bonds"]
    IN  {<<rows[i][2], rows[i][3]>> : i \in 1..Len(rows)}
        \cup {<<rows[i][3], rows[i][2]>> : i \in 1..Len(rows)}

\* Atoms that share a bond of the original file with atom a
OrigNeighbours(a) == {p[2] : p \in {q \in OrigBonds : q[1] = a}}

\* Atoms within d bonds of the set S in the original bond graph
RECURSIVE BallIn(_, _, _)
BallIn(graph, S, d) ==
    IF d = 0 THEN S
    ELSE BallIn(graph, S \cup {p[2] : p \in {q \in graph : q[1] \in S}}, d - 1)

Ball(S, d) == BallIn(OrigBonds, S, d)

\* Atoms named by the extension dict
ExtensionAtoms ==
    IF IsNone(extendEdgeAtomsDict) THEN {}
    ELSE UNION {SeqRange(Get(extendEdgeAtomsDict)[k]) : k \in DOMAIN Get(extendEdgeAtomsDict)}

\* The extension dict, if given, is keyed by atoms that were edge atoms before it
ExtensionOfEdgeAtoms ==
    \/ IsNone(extendEdgeAtomsDict)
    \/ DOMAIN Get(extendEdgeAtomsDict) \subseteq
           {edgeAtomFingerprintDict[i][1] : i \in 1..Len(edgeAtomFingerprintDict)}

DeletedAtoms == IF IsNone(deleteAtoms) THEN {} ELSE SeqRange(Get(deleteAtoms))

\* validAtomSet and edgeAtomList are final: line 68 is behind
AfterExtension == \/ pc \in {"refine", "comments", "save", "done"}
                  \/ pc = "failed" /\ failure # "AssertionError"

\* the sections are refined and the RenumberMap exists: line 112 is behind
Refined == pc \in {"comments", "save", "done"}

\* The data rows of a section (its keyword lines have one field)
DataRowIndices(section) == {i \in 1..Len(section) : RowLen(section[i]) > 1}

EmittedAtomIDs == {types[i][0] : i \in DataRowIndices(types)}

\* Every listed field of every data row of the section is an emitted atom id
FieldsAreEmittedAtoms(section, cols) ==
    LET emitted == EmittedAtomIDs
    IN  \A i \in DataRowIndices(section) : \A c \in cols : section[i][c] \in emitted

\* The rows of the original section whose every atom is in the valid set
Survivors(sectionName, cols) ==
    {i \in 1..Len(tidiedLines[sectionName]) :
        \A c \in cols : tidiedLines[sectionName][i][c] \in validAtomSet}

\* The emitted section holds one row per survivor, and no more
OnlySurvivorsEmitted(section, sectionName, cols) ==
    Cardinality(DataRowIndices(section)) = Cardinality(Survivors(sectionName, cols))

FilePosition(a) == CHOOSE i \in 1..Len(tidiedLines["Atoms"]) : tidiedLines["Atoms"][i][0] = a

-----------------------------------------------------------------------------
(* C1: every atom-id field of every bond, angle, dihedral and improper row   *)
(* that is emitted is the new id of an emitted atom, and a row is emitted    *)
(* only for a record whose atoms are all in the final ValidAtomSet.          *)
C1_NoDanglingReference ==
    Refined =>
        /\ EmittedAtomIDs = {renumberedAtomIDDict[a] : a \in validAtomSet}
        /\ FieldsAreEmittedAtoms(bonds, {2, 3})
        /\ FieldsAreEmittedAtoms(angles, {2, 3, 4})
        /\ FieldsAreEmittedAtoms(dihedrals, {2, 3, 4, 5})
        /\ FieldsAreEmittedAtoms(impropers, {2, 3, 4, 5})
        /\ OnlySurvivorsEmitted(bonds, "Bonds", {2, 3})
        /\ OnlySurvivorsEmitted(angles, "Angles", {2, 3, 4})
        /\ OnlySurvivorsEmitted(dihedrals, "Dihedrals", {2, 3, 4, 5})
        /\ OnlySurvivorsEmitted(impropers, "Impropers", {2, 3, 4, 5})

\* A written file that kept some bonds and angles and dropped some others
C1_Witness ==
    /\ pc = "done"
    /\ DataRowIndices(bonds) # {}
    /\ DataRowIndices(angles) # {}
    /\ Cardinality(DataRowIndices(bonds)) < Len(tidiedLines["Bonds"])
    /\ Cardinality(DataRowIndices(angles)) < Len(tidiedLines["Angles"])
    /\ Cardinality(DataRowIndices(dihedrals)) < Len(tidiedLines["Dihedrals"])

(* C2: once extension is done, the edge-atom list holds exactly the atoms of *)
(* the final ValidAtomSet that have an original neighbour outside it, and    *)
(* the Edge_Atoms comment lists their new ids.                               *)
C2_EdgeAtomsExact ==
    /\ AfterExtension =>
          /\ LET graph == OrigBonds
             IN  SeqRange(edgeAtomList) =
                    {a \in validAtomSet :
                        \E p \in graph : p[1] = a /\ p[2] \notin validAtomSet}
          /\ Cardinality(SeqRange(edgeAtomList)) = Len(edgeAtomList)
    /\ pc \in {"save", "done"} =>
          commentString[2].values =
              [i \in 1..Len(edgeAtomList) |-> renumberedAtomIDDict[edgeAtomList[i]]]

\* A written file of a run whose extension made one edge atom interior and admitted
\* an atom that is an edge atom itself
C2_Witness ==
    /\ pc = "done"
    /\ ~IsNone(extendEdgeAtomsDict)
    /\ \E i \in 1..Len(edgeAtomFingerprintDict) :
          edgeAtomFingerprintDict[i][1] \notin SeqRange(edgeAtomList)
    /\ ExtensionAtoms \cap SeqRange(edgeAtomList) # {}

(* C3: each captured fingerprint lists exactly the original neighbours of    *)
(* its edge atom that are outside the ValidAtomSet used for remapping, and   *)
(* there is one for each edge atom.  Stated for runs without deleteAtoms     *)
(* whose extension dict is keyed by edge atoms.                              *)
C3_FingerprintsOfFinalSet ==
    Refined /\ IsNone(deleteAtoms) /\ ExtensionOfEdgeAtoms =>
        /\ {edgeAtomFingerprintDict[i][1] : i \in 1..Len(edgeAtomFingerprintDict)}
               = SeqRange(edgeAtomList)
        /\ \A i \in 1..Len(edgeAtomFingerprintDict) :
              SeqRange(edgeAtomFingerprintDict[i][2])
                  = OrigNeighbours(edgeAtomFingerprintDict[i][1]) \ validAtomSet

(* C4: no atom of deleteAtoms is in the final ValidAtomSet, nor among the    *)
(* emitted atoms.                                                            *)
C4_DeletedAtomsExcluded ==
    /\ AfterExtension => DeletedAtoms \cap validAtomSet = {}
    /\ Refined => DeletedAtoms \cap DOMAIN renumberedAtomIDDict = {}

(* C5: every id of bondingAtoms and of deleteAtoms resolves in the           *)
(* RenumberMap, so building the comments never fails on a lookup.  Stated    *)
(* for runs without extension whose deleteAtoms name no bonding atom.        *)
C5_CallerIdsResolve ==
    IsNone(extendEdgeAtomsDict) /\ DeletedAtoms \cap SeqRange(bondingAtoms) = {} =>
        /\ Refined =>
              (SeqRange(bondingAtoms) \cup DeletedAtoms)
                  \subseteq DOMAIN renumberedAtomIDDict
        /\ failure \notin {"KeyError bondingAtoms", "KeyError deleteAtoms"}

(* C6: the RenumberMap is a bijection from the final ValidAtomSet onto       *)
(* 1..|ValidAtomSet| that increases in the file order of the atoms.          *)
C6_RenumberMapBijection ==
    Refined =>
        /\ DOMAIN renumberedAtomIDDict = validAtomSet
        /\ {renumberedAtomIDDict[a] : a \in validAtomSet} = 1..Cardinality(validAtomSet)
        /\ \A a, b \in validAtomSet :
              FilePosition(a) < FilePosition(b)
                  => renumberedAtomIDDict[a] < renumberedAtomIDDict[b]

\* A written file of an extended fragment that leaves atoms out and whose new ids
\* do not follow the old ones
C6_Witness ==
    /\ pc = "done"
    /\ ExtensionAtoms \ Ball(SeqRange(bondingAtoms), 3) # {}
    /\ validAtomSet # AtomIDs
    /\ \E a, b \in validAtomSet : a < b /\ renumberedAtomIDDict[a] > renumberedAtomIDDict[b]

(* C7: each of the five header counts is the number of data rows of its      *)
(* section, zero for a section without rows.                                 *)
C7_HeaderCounts ==
    Refined =>
        /\ Len(header) = 6
        /\ header[2][0] = Cardinality(DataRowIndices(types))
        /\ header[3][0] = Cardinality(DataRowIndices(bonds))
        /\ header[4][0] = Cardinality(DataRowIndices(angles))
        /\ header[5][0] = Cardinality(DataRowIndices(dihedrals))
        /\ header[6][0] = Cardinality(DataRowIndices(impropers))
        /\ Cardinality(DataRowIndices(types)) = Len(atoms)
        /\ Cardinality(DataRowIndices(charges)) = Len(atoms)
        /\ Cardinality(DataRowIndices(coords)) = Len(atoms)

\* A written file with bonds and angles but no improper
C7_Witness ==
    /\ pc = "done"
    /\ header[3][0] > 0
    /\ header[4][0] > 0
    /\ header[6][0] = 0
    /\ Len(tidiedLines["Impropers"]) > 0

(* C8: a run that fails writes no file: the file is written only when the    *)
(* bonding atoms are not empty, every external neighbour has an element and  *)
(* every id of the comments resolves.                                        *)
C8_NoWriteOnFailure ==
    /\ pc = "failed" => failure # "none" /\ IsNone(savedFile)
    /\ failure # "none" => pc = "failed"
    /\ Len(bondingAtoms) = 0 => IsNone(savedFile)
    /\ ~IsNone(savedFile) =>
          /\ pc = "done"
          /\ \A i \in 1..Len(edgeAtomFingerprintDict) :
                \A a \in SeqRange(edgeAtomFingerprintDict[i][2]) :
                    AtomType(a) <= Len(elementsByType)
          /\ (SeqRange(bondingAtoms) \cup SeqRange(edgeAtomList) \cup DeletedAtoms)
                 \subseteq DOMAIN renumberedAtomIDDict
          /\ Get(savedFile) = OutputList

\* A run that got as far as rendering the fingerprints and failed there
C8_Witness ==
    /\ pc = "failed"
    /\ failure = "LookupError"
    /\ Len(atoms) > 0
    /\ IsNone(savedFile)

(* C9: every atom of the final ValidAtomSet that the extension did not name  *)
(* is within 3 bonds of a bonding atom in the original bond graph.           *)
C9_DistanceBound ==
    AfterExtension =>
        (validAtomSet \ ExtensionAtoms) \subseteq Ball(SeqRange(bondingAtoms), 3)

\* A written file that keeps an atom 3 bonds away and leaves out one 4 bonds away
C9_Witness ==
    /\ pc = "done"
    /\ validAtomSet \ Ball(SeqRange(bondingAtoms), 2) # {}
    /\ Ball(SeqRange(bondingAtoms), 4) \ validAtomSet # {}

(* C10: in a written file the fingerprint list has one entry for each entry  *)
(* of the edge-atom list, the i-th being the fingerprint of the i-th edge    *)
(* atom.  Stated for runs without deleteAtoms whose extension dict is keyed   *)
(* by edge atoms.                                                            *)
C10_FingerprintsAligned ==
    pc = "done" /\ IsNone(deleteAtoms) /\ ExtensionOfEdgeAtoms =>
        /\ Len(commentString[3].values) = Len(commentString[2].values)
        /\ \A i \in 1..Len(edgeAtomFingerprintDict) :
              /\ i <= Len(edgeAtomList)
              /\ edgeAtomFingerprintDict[i][1] = edgeAtomList[i]

====
